---- MODULE Spec2Model ----
(***************************************************************************)
(* Model of zaataylor/time-tracking.                                       *)
(*   src/get_time_data.py    the Collector (Clockify API crawl)            *)
(*   src/preprocess_data.py  the Normalizer (join, dates, durations)       *)
(* Python strings are sequences of one-character strings.                  *)
(***************************************************************************)
EXTENDS Integers, Sequences, FiniteSets, TLC

VARIABLES
    \* calculate_duration called on its own
    duration,         \* the argument of calculate_duration
    dur_parts,        \* the h, m, s the argument was written from (valid arguments)
    dur_pairs,        \* the <<number, letter>> pairs the argument was written from
    dur_result,       \* what the call returned or raised
    dur_pc,
    \* get_date called on its own
    isoformattime,    \* the argument of get_date
    date_result,      \* what the call returned or raised
    \* preprocess_data.py: main
    projects,         \* projects file: project id -> <<name, task id -> name>>
    tasks,            \* tasks file: task id -> name
    data,             \* entries file: the raw time entries
    export_csv,       \* the --csv flag
    datum_idx,        \* position of the loop "for datum in data" (1-based)
    processed_items,
    pp_pc,
    pp_error,         \* the exception that ended the run, "none" if none
    csv_file,         \* rows written by export_to_csv
    json_file,        \* list written by dump_data
    files_written,    \* which output files exist
    \* get_time_data.py: main
    args,             \* parsed command line: num_pages, num_entries, delay
    col_pc,
    col_error,        \* the exception that ended the run, "none" if none
    calls,            \* the requests issued and the sleeps taken, in order
    identity,         \* <<user_id, workspace_id>> once resolved
    project_list,     \* the project-list response being walked by get_projects
    project_idx,      \* position of "for project in response" (1-based)
    col_projects,     \* the dict get_projects builds, in insertion order
    num_pages,
    page,             \* position of "for page in range(1, num_pages + 1)"
    entries,          \* the list get_time_entries builds
    col_files         \* the files dump_data has written: name -> content

dur_vars == <<duration, dur_parts, dur_pairs, dur_result, dur_pc>>
date_vars == <<isoformattime, date_result>>
pp_vars == <<projects, tasks, data, export_csv, datum_idx, processed_items, pp_pc,
             pp_error, csv_file, json_file, files_written>>

col_vars == <<args, col_pc, col_error, calls, identity, project_list, project_idx,
              col_projects, num_pages, page, entries, col_files>>

vars == <<dur_vars, date_vars, pp_vars, col_vars>>

----------------------------------------------------------------------------
(* Bounds of the model *)

\* largest hour, minute or second value written into a valid duration string
MaxUnitValue == 12
\* most leading zeros written before a value
MaxPad == 1
\* longest arbitrary (possibly malformed) duration string
MaxDurationLen == 5

----------------------------------------------------------------------------
(* Values of the variables of a part of the program that is not running *)

DurIdle ==
    /\ duration = <<>>
    /\ dur_parts = [h |-> 0 - 1, m |-> 0 - 1, s |-> 0 - 1, pad |-> 0]
    /\ dur_pairs = <<>>
    /\ dur_result = [kind |-> "none", val |-> 0]
    /\ dur_pc = "idle"

DateIdle ==
    /\ isoformattime = <<>>
    /\ date_result = [kind |-> "idle", val |-> <<>>]

PpIdle ==
    /\ projects = <<>>
    /\ tasks = <<>>
    /\ data = <<>>
    /\ export_csv = FALSE
    /\ datum_idx = 0
    /\ processed_items = <<>>
    /\ pp_pc = "idle"
    /\ pp_error = "none"
    /\ csv_file = <<>>
    /\ json_file = <<>>
    /\ files_written = {}

ColIdle ==
    /\ args = [num_pages |-> <<>>, num_entries |-> <<>>, delay |-> <<>>]
    /\ col_pc = "idle"
    /\ col_error = "none"
    /\ calls = <<>>
    /\ identity = <<>>
    /\ project_list = <<>>
    /\ project_idx = 0
    /\ col_projects = <<>>
    /\ num_pages = 0
    /\ page = 0
    /\ entries = <<>>
    /\ col_files = <<>>

----------------------------------------------------------------------------
(* Python string primitives *)

DIGITS == <<"0", "1", "2", "3", "4", "5", "6", "7", "8", "9">>

IsDigit(c) == \E k \in 1..10 : DIGITS[k] = c

DigitValue(c) == (CHOOSE k \in 1..10 : DIGITS[k] = c) - 1

\* str.find(c): index (0-based) of the first occurrence, -1 when absent
Find(s, c) ==
    IF \E k \in 1..Len(s) : s[k] = c
    THEN (CHOOSE k \in 1..Len(s) : s[k] = c /\ \A j \in 1..(k - 1) : s[j] # c) - 1
    ELSE -1

\* s[a:] for a >= 0
SliceFrom(s, a) == SubSeq(s, a + 1, Len(s))

\* s[0:b] for b >= 0
SliceTo(s, b) == SubSeq(s, 1, b)

\* str.replace(a, b) for one-character a and b
Replace(s, a, b) == [k \in 1..Len(s) |-> IF s[k] = a THEN b ELSE s[k]]

\* str.split(sep) for a one-character sep: always at least one piece
RECURSIVE Split(_, _)
Split(s, sep) ==
    LET k == Find(s, sep)
    IN  IF k = -1 THEN <<s>>
        ELSE <<SliceTo(s, k)>> \o Split(SliceFrom(s, k + 1), sep)

\* No filter: the empty piece after the last letter is kept.
KeepAll(pieces) == pieces

\* list(filter(None, pieces)): the empty strings are dropped
FilterNone(pieces) == SelectSeq(pieces, LAMBDA p : p # <<>>)

\* the characters int() reads as a number: an optional sign, then digits
IntLiteral(tok) ==
    LET body == IF tok # <<>> /\ tok[1] \in {"-", "+"} THEN Tail(tok) ELSE tok
    IN  body # <<>> /\ \A k \in 1..Len(body) : IsDigit(body[k])

RECURSIVE DigitsValue(_)
DigitsValue(ds) ==
    IF ds = <<>> THEN 0
    ELSE 10 * DigitsValue(SubSeq(ds, 1, Len(ds) - 1)) + DigitValue(ds[Len(ds)])

\* int(tok) where IntLiteral(tok)
IntOf(tok) ==
    IF tok[1] = "-" THEN 0 - DigitsValue(Tail(tok))
    ELSE IF tok[1] = "+" THEN DigitsValue(Tail(tok))
    ELSE DigitsValue(tok)

\* str(n) for n >= 0
RECURSIVE Str(_)
Str(n) == IF n < 10 THEN <<DIGITS[n + 1]>> ELSE Str(n \div 10) \o <<DIGITS[(n % 10) + 1]>>

----------------------------------------------------------------------------
(* preprocess_data.py: calculate_duration *)

SECONDS_IN_MINUTE == 60
SECONDS_IN_HOUR == SECONDS_IN_MINUTE * 60

Returned(v) == [kind |-> "ok", val |-> v]
Raised(e) == [kind |-> e, val |-> 0]
NotCalled == [kind |-> "none", val |-> 0]

\* A loop that never advances i: every present unit reads the first number.
RECURSIVE DurationLoopNoAdvance(_, _, _, _, _)
DurationLoopNoAdvance(hms_found, numbers, idx, i, total) ==
    IF idx > 2 THEN Returned(total)
    ELSE IF ~hms_found[idx + 1]
         THEN DurationLoopNoAdvance(hms_found, numbers, idx + 1, i, total)
    ELSE IF i + 1 > Len(numbers) THEN Raised("IndexError")
    ELSE IF idx = 0
         THEN DurationLoopNoAdvance(hms_found, numbers, idx + 1, i,
                                    total + numbers[i + 1] * SECONDS_IN_HOUR)
    ELSE IF idx = 1
         THEN DurationLoopNoAdvance(hms_found, numbers, idx + 1, i,
                                    total + numbers[i + 1] * SECONDS_IN_MINUTE)
    ELSE DurationLoopNoAdvance(hms_found, numbers, idx + 1, i, total + numbers[i + 1])

\* the loop over enumerate(hms_found): idx is 0-based, i the next unused number
RECURSIVE DurationLoop(_, _, _, _, _)
DurationLoop(hms_found, numbers, idx, i, total) ==
    IF idx > 2 THEN Returned(total)
    ELSE IF ~hms_found[idx + 1] THEN DurationLoop(hms_found, numbers, idx + 1, i, total)
    ELSE IF i + 1 > Len(numbers) THEN Raised("IndexError")
    ELSE IF idx = 0
         THEN DurationLoop(hms_found, numbers, idx + 1, i + 1,
                           total + numbers[i + 1] * SECONDS_IN_HOUR)
    ELSE IF idx = 1
         THEN DurationLoop(hms_found, numbers, idx + 1, i + 1,
                           total + numbers[i + 1] * SECONDS_IN_MINUTE)
    ELSE DurationLoop(hms_found, numbers, idx + 1, i + 1, total + numbers[i + 1])

\* A guard that takes 0, not -1, for find's "not found".
NoUnitFoundZero(H_idx, M_idx, S_idx) == H_idx = 0 /\ M_idx = 0 /\ S_idx = 0

\* none of 'H', 'M', or 'S' were found
NoUnitFound(H_idx, M_idx, S_idx) == H_idx = -1 /\ M_idx = -1 /\ S_idx = -1

calculate_duration(arg) ==
    LET d == SliceFrom(arg, 2)
        H_idx == Find(d, "H")
        M_idx == Find(d, "M")
        S_idx == Find(d, "S")
        hms_found == <<H_idx >= 0, M_idx >= 0, S_idx >= 0>>
        pieces == FilterNone(Split(Replace(Replace(Replace(d, "H", "|"), "M", "|"),
                                           "S", "|"), "|"))
    IN  IF NoUnitFound(H_idx, M_idx, S_idx) THEN Raised("ValueError")
        ELSE IF \E k \in 1..Len(pieces) : ~IntLiteral(pieces[k]) THEN Raised("ValueError")
        ELSE DurationLoop(hms_found, [k \in 1..Len(pieces) |-> IntOf(pieces[k])], 0, 0, 0)

----------------------------------------------------------------------------
(* Arguments of calculate_duration *)

ABSENT == 0 - 1

UnitValues == 0..MaxUnitValue

Zeros(n) == [k \in 1..n |-> "0"]

\* "<value><letter>" with pad leading zeros, or nothing for an omitted unit
Component(v, pad, letter) ==
    IF v = ABSENT THEN <<>> ELSE Zeros(pad) \o Str(v) \o <<letter>>

\* a valid duration string: 'PT', then the present units in H, M, S order
EncodeDuration(p) ==
    <<"P", "T">> \o Component(p.h, p.pad, "H") \o Component(p.m, p.pad, "M")
                 \o Component(p.s, p.pad, "S")

DurationParts ==
    { p \in [h : UnitValues \cup {ABSENT}, m : UnitValues \cup {ABSENT},
             s : UnitValues \cup {ABSENT}, pad : 0..MaxPad] :
        ~(p.h = ABSENT /\ p.m = ABSENT /\ p.s = ABSENT) }

NoParts == [h |-> ABSENT, m |-> ABSENT, s |-> ABSENT, pad |-> 0]

DurationAlphabet == {"P", "T", "H", "M", "S", "1", "5", "X", "-"}

RECURSIVE StringsUpTo(_, _)
StringsUpTo(alphabet, n) ==
    IF n = 0 THEN {<<>>}
    ELSE LET shorter == StringsUpTo(alphabet, n - 1)
         IN  shorter \cup {Append(s, c) : s \in {t \in shorter : Len(t) = n - 1},
                                          c \in alphabet}

\* most <<number, letter>> pairs in a duration string whose letters may
\* repeat or be out of order
MaxPairs == 3

\* numbers written before a letter: negative, zero, in range, out of range
PairNumbers == {0 - 5, 0, 3, 5, 75}

\* str(n), any sign
SignedStr(n) == IF n < 0 THEN <<"-">> \o Str(0 - n) ELSE Str(n)

RECURSIVE EncodePairs(_)
EncodePairs(ps) ==
    IF ps = <<>> THEN <<>>
    ELSE SignedStr(Head(ps)[1]) \o <<Head(ps)[2]>> \o EncodePairs(Tail(ps))

\* 'PT', then numbers each followed by a unit letter: the letters in any
\* order, repeated or not
PairLists ==
    StringsUpTo(PairNumbers \X {"H", "M", "S"}, MaxPairs) \ {<<>>}

DurInit ==
    /\ \/ /\ \E p \in DurationParts : dur_parts = p /\ duration = EncodeDuration(p)
          /\ dur_pairs = <<>>
       \/ /\ dur_parts = NoParts
          /\ dur_pairs = <<>>
          /\ duration \in StringsUpTo(DurationAlphabet, MaxDurationLen)
       \/ /\ dur_parts = NoParts
          /\ dur_pairs \in PairLists
          /\ duration = <<"P", "T">> \o EncodePairs(dur_pairs)
    /\ dur_result = NotCalled
    /\ dur_pc = "call"
    /\ DateIdle
    /\ PpIdle
    /\ ColIdle

CallCalculateDuration ==
    /\ dur_pc = "call"
    /\ dur_result' = calculate_duration(duration)
    /\ dur_pc' = "done"
    /\ UNCHANGED <<duration, dur_parts, dur_pairs, date_vars, pp_vars, col_vars>>

----------------------------------------------------------------------------
(* preprocess_data.py: get_date *)

RaisedStr(e) == [kind |-> e, val |-> <<>>]

\* A slice that keeps the separator: isoformattime[0: T_index + 1].
get_dateInclusive(ts) ==
    LET T_index == Find(ts, "T")
    IN  IF T_index = -1 THEN RaisedStr("ValueError")
        ELSE [kind |-> "ok", val |-> SliceTo(ts, T_index + 1)]

get_date(ts) ==
    LET T_index == Find(ts, "T")
    IN  IF T_index = -1 THEN RaisedStr("ValueError")
        ELSE [kind |-> "ok", val |-> SliceTo(ts, T_index)]

\* longest timestamp given to get_date on its own
MaxTimestampLen == 5

TimestampAlphabet == {"T", "2", "-", "Z"}

DateInit ==
    /\ isoformattime \in StringsUpTo(TimestampAlphabet, MaxTimestampLen)
    /\ date_result = [kind |-> "none", val |-> <<>>]
    /\ DurIdle
    /\ PpIdle
    /\ ColIdle

CallGetDate ==
    /\ date_result.kind = "none"
    /\ date_result' = get_date(isoformattime)
    /\ UNCHANGED <<isoformattime, dur_vars, pp_vars, col_vars>>

----------------------------------------------------------------------------
(* preprocess_data.py: preprocess_data, export_to_csv, main *)

\* Python's None; ids and names are opaque strings other than this one
None == "None"

UPPERCASE == <<"A", "B", "C", "D", "E", "F", "G", "H", "I", "J", "K", "L", "M",
               "N", "O", "P", "Q", "R", "S", "T", "U", "V", "W", "X", "Y", "Z">>
LOWERCASE == <<"a", "b", "c", "d", "e", "f", "g", "h", "i", "j", "k", "l", "m",
               "n", "o", "p", "q", "r", "s", "t", "u", "v", "w", "x", "y", "z">>

LowerChar(c) ==
    IF \E k \in 1..26 : UPPERCASE[k] = c
    THEN LOWERCASE[CHOOSE k \in 1..26 : UPPERCASE[k] = c]
    ELSE c

\* str.lower
Lower(s) == [k \in 1..Len(s) |-> LowerChar(s[k])]

HasKey(dict, k) == k \in DOMAIN dict

\* A default label for entries without a task.
TaskFieldsDefaultName(datum, tasks_table) ==
    IF datum.taskId = None
    THEN [kind |-> "ok", task_id |-> None, task_name |-> "No Task"]
    ELSE IF ~HasKey(tasks_table, datum.taskId)
    THEN [kind |-> "KeyError", task_id |-> None, task_name |-> None]
    ELSE [kind |-> "ok", task_id |-> datum.taskId, task_name |-> tasks_table[datum.taskId]]

\* tasks.get(datum['taskId']): an unknown task id gives None, not KeyError.
TaskFieldsGet(datum, tasks_table) ==
    IF datum.taskId = None
    THEN [kind |-> "ok", task_id |-> None, task_name |-> None]
    ELSE [kind |-> "ok", task_id |-> datum.taskId,
          task_name |-> IF HasKey(tasks_table, datum.taskId)
                        THEN tasks_table[datum.taskId] ELSE None]

\* proc_item['task_id'], proc_item['task_name']: tasks is read only for a
\* taskId that is not None
TaskFields(datum, tasks_table) ==
    IF datum.taskId = None
    THEN [kind |-> "ok", task_id |-> None, task_name |-> None]
    ELSE IF ~HasKey(tasks_table, datum.taskId)
    THEN [kind |-> "KeyError", task_id |-> None, task_name |-> None]
    ELSE [kind |-> "ok", task_id |-> datum.taskId, task_name |-> tasks_table[datum.taskId]]

NoItem ==
    [task_id |-> None, task_name |-> None, project_id |-> None, project_name |-> None,
     description |-> <<>>, start_time_utc |-> <<>>, start_date_utc |-> <<>>,
     end_time_utc |-> <<>>, end_date_utc |-> <<>>, duration_seconds |-> 0]

ItemFailed(e) == [kind |-> e, item |-> NoItem]

\* one pass of the body of "for datum in data": the proc_item built, or the
\* first exception raised, in the order the statements run
ProcItem(datum, projects_table, tasks_table) ==
    LET tf == TaskFields(datum, tasks_table)
        start_date == get_date(datum.timeInterval.start)
        end_date == get_date(datum.timeInterval.end)
        seconds == calculate_duration(datum.timeInterval.duration)
    IN  IF tf.kind # "ok" THEN ItemFailed(tf.kind)
        ELSE IF ~HasKey(projects_table, datum.projectId) THEN ItemFailed("KeyError")
        ELSE IF start_date.kind # "ok" THEN ItemFailed(start_date.kind)
        ELSE IF end_date.kind # "ok" THEN ItemFailed(end_date.kind)
        ELSE IF seconds.kind # "ok" THEN ItemFailed(seconds.kind)
        ELSE [kind |-> "ok",
              item |-> [task_id |-> tf.task_id,
                        task_name |-> tf.task_name,
                        project_id |-> datum.projectId,
                        project_name |-> projects_table[datum.projectId][1],
                        description |-> Lower(datum.description),
                        start_time_utc |-> datum.timeInterval.start,
                        start_date_utc |-> start_date.val,
                        end_time_utc |-> datum.timeInterval.end,
                        end_date_utc |-> end_date.val,
                        duration_seconds |-> seconds.val]]

CSV_HEADER ==
    <<"Project Name", "Project ID", "Task Name", "Task ID", "Description",
      "Start Time (UTC)", "Start Date (UTC)", "End Time (UTC)", "End Date (UTC)",
      "Duration (Seconds)">>

\* A row with the task name and task id exchanged.
CsvRowSwapped(pi) ==
    <<pi.project_name, pi.project_id, pi.task_id, pi.task_name, pi.description,
      pi.start_time_utc, pi.start_date_utc, pi.end_time_utc, pi.end_date_utc,
      pi.duration_seconds>>

CsvRow(pi) ==
    <<pi.project_name, pi.project_id, pi.task_name, pi.task_id, pi.description,
      pi.start_time_utc, pi.start_date_utc, pi.end_time_utc, pi.end_date_utc,
      pi.duration_seconds>>

\* the rows export_to_csv writes: the header, then one row per item
CsvRows(preproc_data) ==
    <<CSV_HEADER>> \o [k \in 1..Len(preproc_data) |-> CsvRow(preproc_data[k])]

\* Newest first: processed_items.insert(0, proc_item).
InsertItemFirst(items, item) == <<item>> \o items

\* processed_items.append(proc_item)
AppendItem(items, item) == Append(items, item)

\* the loop body of preprocess_data for data[datum_idx]
ProcessDatum ==
    /\ pp_pc = "loop"
    /\ datum_idx <= Len(data)
    /\ LET r == ProcItem(data[datum_idx], projects, tasks)
       IN  IF r.kind = "ok"
           THEN /\ processed_items' = AppendItem(processed_items, r.item)
                /\ datum_idx' = datum_idx + 1
                /\ UNCHANGED <<pp_pc, pp_error>>
           ELSE \* the exception leaves preprocess_data and main
                /\ pp_pc' = "failed"
                /\ pp_error' = r.kind
                /\ UNCHANGED <<processed_items, datum_idx>>
    /\ UNCHANGED <<projects, tasks, data, export_csv, csv_file, json_file, files_written>>
    /\ UNCHANGED <<dur_vars, date_vars, col_vars>>

\* preprocess_data returns processed_items to main
ReturnProcessed ==
    /\ pp_pc = "loop"
    /\ datum_idx > Len(data)
    /\ pp_pc' = IF export_csv THEN "csv" ELSE "json"
    /\ UNCHANGED <<projects, tasks, data, export_csv, datum_idx, processed_items,
                   pp_error, csv_file, json_file, files_written>>
    /\ UNCHANGED <<dur_vars, date_vars, col_vars>>

ExportToCsv ==
    /\ pp_pc = "csv"
    /\ csv_file' = CsvRows(processed_items)
    /\ files_written' = files_written \cup {"csv"}
    /\ pp_pc' = "json"
    /\ UNCHANGED <<projects, tasks, data, export_csv, datum_idx, processed_items,
                   pp_error, json_file>>
    /\ UNCHANGED <<dur_vars, date_vars, col_vars>>

DumpData ==
    /\ pp_pc = "json"
    /\ json_file' = processed_items
    /\ files_written' = files_written \cup {"json"}
    /\ pp_pc' = "done"
    /\ UNCHANGED <<projects, tasks, data, export_csv, datum_idx, processed_items,
                   pp_error, csv_file>>
    /\ UNCHANGED <<dur_vars, date_vars, col_vars>>

----------------------------------------------------------------------------
(* Input files of the Normalizer *)

\* most raw entries in the entries file
MaxEntries == 2

ProjectsFile ==
    [k \in {"P1", "P2"} |->
        IF k = "P1" THEN <<"Proj One", [t \in {"T1"} |-> "Task One"]>>
        ELSE <<"Proj Two", <<>>>>]

\* the tasks file written with the projects file, and a stale (empty) one
TasksFiles == {[t \in {"T1"} |-> "Task One"], <<>>}

GoodStart == <<"2", "0", "2", "3", "-", "0", "5", "-", "0", "1", "T",
               "1", "0", ":", "0", "0", ":", "0", "0", "Z">>
GoodEnd == <<"2", "0", "2", "3", "-", "0", "5", "-", "0", "2", "T",
             "0", "1", ":", "3", "0", ":", "0", "0", "Z">>
\* no 'T' between date and time
BadTime == <<"2", "0", "2", "3", "-", "0", "5", "-", "0", "1", " ",
             "1", "0", ":", "0", "0", ":", "0", "0", "Z">>

\* at most one of start and end is malformed
TimeIntervals ==
    { ti \in [start : {GoodStart, BadTime}, end : {GoodEnd, BadTime},
              duration : {<<"P", "T", "1", "H", "3", "0", "S">>, <<"P", "T", "X">>}] :
        ti.start = GoodStart \/ ti.end = GoodEnd }

RawEntries ==
    [projectId : {"P1", "P9"},
     taskId : {None, "T1"},
     description : {<<"W", "o", "r", "k", "e", "d", " ", "O", "N", " ", "i", "t">>,
                    <<"r", "e", "v", "i", "e", "w", " ", "#", "2">>},
     timeInterval : TimeIntervals]

RECURSIVE ListsUpTo(_, _)
ListsUpTo(S, n) ==
    IF n = 0 THEN {<<>>}
    ELSE LET shorter == ListsUpTo(S, n - 1)
         IN  shorter \cup {Append(l, x) : l \in {t \in shorter : Len(t) = n - 1}, x \in S}

Init ==
    /\ projects = ProjectsFile
    /\ tasks \in TasksFiles
    /\ data \in ListsUpTo(RawEntries, MaxEntries)
    /\ export_csv \in BOOLEAN
    /\ datum_idx = 1
    /\ processed_items = <<>>
    /\ pp_pc = "loop"
    /\ pp_error = "none"
    /\ csv_file = <<>>
    /\ json_file = <<>>
    /\ files_written = {}
    /\ DurIdle
    /\ DateIdle
    /\ ColIdle

Next == ProcessDatum \/ ReturnProcessed \/ ExportToCsv \/ DumpData

Spec == Init /\ [][Next]_vars

----------------------------------------------------------------------------
(* get_time_data.py: the Collector *)

ENTRIES_PER_PAGE == 50
\* DEFAULT_DELAY = 0.2 seconds, in milliseconds
DEFAULT_DELAY == 200

\* an optional command-line value: <<>> is Python's None, <<v>> the value v
IsNone(opt) == opt = <<>>

\* "if delay is None: delay = DEFAULT_DELAY"
EffectiveDelay(delay) == IF IsNone(delay) THEN DEFAULT_DELAY ELSE delay[1]

\* Floor division: num_entries // ENTRIES_PER_PAGE.
FloorDiv(n, d) == n \div d

\* math.ceil(n / d) for d > 0
CeilDiv(n, d) == IF n % d = 0 THEN n \div d ELSE (n \div d) + 1

\* int(math.ceil(num_entries / ENTRIES_PER_PAGE))
PageCount(num_entries) == CeilDiv(num_entries, ENTRIES_PER_PAGE)

\* main, lines 89-92: the page count given, or the one derived from num_entries
ChooseNumPages(a) ==
    IF IsNone(a.num_pages) THEN PageCount(a.num_entries[1]) ELSE a.num_pages[1]

\* What a request can come back with.
\*   ok             success status, the JSON body the endpoint documents
\*   http_error     non-success status; the body is the service's JSON error
\*                  object {"message": ..., "code": ...}
\*   not_json       a body that is not JSON
\*   network_error  no response at all
\*   missing_field  (identity request) success status, an object without
\*                  'activeWorkspace'
FailedResponses == {"http_error", "not_json", "network_error"}

ERROR_OBJECT_KEYS == <<"message", "code">>

\* requests.get(...) then r.json(): requests.get raises only when there is no
\* response, r.json() only when the body is not JSON; the status is not read
FetchRaises(kind) ==
    IF kind = "network_error" THEN "ConnectionError"
    ELSE IF kind = "not_json" THEN "JSONDecodeError"
    ELSE "none"

\* "for x in response": a list gives its elements, a dict its keys
Iterate(resp) == IF resp.kind = "http_error" THEN ERROR_OBJECT_KEYS ELSE resp.body

\* an entry of calls: a request with the response it got (the list in its
\* body, for a task or time-entry request that succeeded), or a sleep
Get(what, project, pg, resp) ==
    [op |-> "get", what |-> what, project |-> project, page |-> pg, delay |-> 0,
     resp |-> resp.kind,
     body |-> IF resp.kind = "ok" /\ what \in {"tasks", "time-entries"}
              THEN resp.body ELSE <<>>]

Sleep(ms) ==
    [op |-> "sleep", what |-> "", project |-> "", page |-> 0, delay |-> ms,
     resp |-> "", body |-> <<>>]

\* d[k] = v on a dict kept in insertion order, as <<key, value>> pairs
DictPut(d, k, v) ==
    IF \E i \in 1..Len(d) : d[i][1] = k
    THEN [i \in 1..Len(d) |-> IF d[i][1] = k THEN <<k, v>> ELSE d[i]]
    ELSE Append(d, <<k, v>>)

\* Key and value exchanged: tasks[task['name']] = task['id'].
RECURSIVE TasksDictSwapped(_, _)
TasksDictSwapped(body, acc) ==
    IF body = <<>> THEN acc
    ELSE TasksDictSwapped(Tail(body), DictPut(acc, Head(body).name, Head(body).id))

\* get_tasks_by_project_id: "for task in response: tasks[task['id']] = task['name']"
RECURSIVE TasksDict(_, _)
TasksDict(body, acc) ==
    IF body = <<>> THEN acc
    ELSE TasksDict(Tail(body), DictPut(acc, Head(body).id, Head(body).name))

\* main, lines 101-104: every project's task map flattened into one dict
RECURSIVE PutAll(_, _)
PutAll(acc, pairs) ==
    IF pairs = <<>> THEN acc
    ELSE PutAll(DictPut(acc, Head(pairs)[1], Head(pairs)[2]), Tail(pairs))

RECURSIVE FlattenTasks(_, _)
FlattenTasks(projs, acc) ==
    IF projs = <<>> THEN acc
    ELSE FlattenTasks(Tail(projs), PutAll(acc, Head(projs)[2][2]))

\* an element of the entries list: a time entry of a page, or a string
EntryOf(pg, n) == [str |-> "", page |-> pg, n |-> n]
StringItem(str) == [str |-> str, page |-> 0, n |-> 0]

\* "for entry in response: entries.append(entry)"
AppendAll(list, resp) ==
    list \o (IF resp.kind = "http_error"
             THEN [k \in 1..Len(Iterate(resp)) |-> StringItem(Iterate(resp)[k])]
             ELSE Iterate(resp))

----------------------------------------------------------------------------
(* The command line and the service's responses *)

\* most pages asked for
MaxPages == 2
\* most time entries on one page of the model
MaxPageLen == 2
\* most projects in the workspace
MaxProjects == 2

PROJECT_POOL ==
    <<[id |-> "P1", name |-> "Proj One", task |-> [id |-> "T1", name |-> "Task One"]],
      [id |-> "P2", name |-> "Proj Two", task |-> [id |-> "T2", name |-> "Task Two"]],
      [id |-> "P3", name |-> "Proj Three", task |-> [id |-> "T3", name |-> "Task Three"]],
      [id |-> "P4", name |-> "Proj Four", task |-> [id |-> "T4", name |-> "Task Four"]]>>

Failure(kind) == [kind |-> kind, body |-> <<>>]

UserResponses ==
    {[kind |-> "ok", body |-> [id |-> "U1", activeWorkspace |-> "W1"]],
     [kind |-> "missing_field", body |-> [id |-> "U1"]]}
    \cup {Failure(k) : k \in FailedResponses}

\* the workspace's projects, in any order the API may list them
ProjectOrders ==
    { o \in ListsUpTo(1..MaxProjects, MaxProjects) :
        \A i, j \in 1..Len(o) : i # j => o[i] # o[j] }

ProjectListResponses ==
    {[kind |-> "ok",
      body |-> [k \in 1..Len(o) |-> [id |-> PROJECT_POOL[o[k]].id,
                                     name |-> PROJECT_POOL[o[k]].name]]] :
        o \in ProjectOrders}
    \cup {Failure(k) : k \in FailedResponses}

TaskOfProject(project_id) ==
    (CHOOSE k \in 1..Len(PROJECT_POOL) : PROJECT_POOL[k].id = project_id)

TaskResponses(project_id) ==
    {[kind |-> "ok", body |-> <<>>],
     [kind |-> "ok", body |-> <<PROJECT_POOL[TaskOfProject(project_id)].task>>]}
    \cup {Failure(k) : k \in FailedResponses}

\* a page may be full, short or empty
PageResponses(pg) ==
    {[kind |-> "ok", body |-> [k \in 1..n |-> EntryOf(pg, k)]] : n \in 0..MaxPageLen}
    \cup {Failure(k) : k \in FailedResponses}

Delays == {<<>>, <<500>>}

\* --num-entries values at and around the multiples of ENTRIES_PER_PAGE
NumEntriesArgs ==
    { n \in {k * ENTRIES_PER_PAGE + d : k \in 0..MaxPages, d \in {0 - 1, 0, 1}} :
        PageCount(n) <= MaxPages }

\* exactly one of --num-pages and --num-entries is given
CommandLines ==
    {[num_pages |-> <<n>>, num_entries |-> <<>>, delay |-> d] :
        n \in (0 - 1)..MaxPages, d \in Delays}
    \cup {[num_pages |-> <<>>, num_entries |-> <<n>>, delay |-> d] :
        n \in NumEntriesArgs, d \in Delays}

----------------------------------------------------------------------------
(* get_time_data.py: main and the functions it calls *)

Fail(e) ==
    /\ col_pc' = "failed"
    /\ col_error' = e

\* get_user_info, given the response to its request
GetUserInfoGiven(resp) ==
    /\ col_pc = "user"
    /\ calls' = Append(calls, Get("user", "", 0, resp))
    /\ IF FetchRaises(resp.kind) # "none"
       THEN Fail(FetchRaises(resp.kind)) /\ UNCHANGED identity
       ELSE IF resp.kind \in {"http_error", "missing_field"}
       THEN \* response['id'] or response['activeWorkspace']
            Fail("KeyError") /\ UNCHANGED identity
       ELSE /\ identity' = <<resp.body.id, resp.body.activeWorkspace>>
            /\ col_pc' = "projects"
            /\ UNCHANGED col_error
    /\ UNCHANGED <<args, project_list, project_idx, col_projects, num_pages, page,
                   entries, col_files>>
    /\ UNCHANGED <<dur_vars, date_vars, pp_vars>>

GetUserInfo == \E resp \in UserResponses : GetUserInfoGiven(resp)

\* get_projects up to its loop, given the response to the project-list request
ListProjectsGiven(resp) ==
    /\ col_pc = "projects"
    /\ calls' = Append(calls, Get("projects", "", 0, resp))
    /\ IF FetchRaises(resp.kind) # "none"
       THEN Fail(FetchRaises(resp.kind)) /\ UNCHANGED <<project_list, project_idx>>
       ELSE IF resp.kind = "http_error"
       THEN \* project['id'] on a key of the error object, a str
            Fail("TypeError") /\ UNCHANGED <<project_list, project_idx>>
       ELSE /\ project_list' = resp.body
            /\ project_idx' = 1
            /\ col_pc' = "tasks"
            /\ UNCHANGED col_error
    /\ UNCHANGED <<args, identity, col_projects, num_pages, page, entries, col_files>>
    /\ UNCHANGED <<dur_vars, date_vars, pp_vars>>

ListProjects == \E resp \in ProjectListResponses : ListProjectsGiven(resp)

\* the loop body of get_projects for project_list[project_idx], given the
\* response to the task request
GetProjectTasksGiven(resp) ==
    /\ col_pc = "tasks"
    /\ project_idx <= Len(project_list)
    /\ LET project == project_list[project_idx]
           request == Get("tasks", project.id, 0, resp)
       IN  IF FetchRaises(resp.kind) # "none"
           THEN /\ calls' = Append(calls, request)
                /\ Fail(FetchRaises(resp.kind))
                /\ UNCHANGED <<project_idx, col_projects>>
           ELSE IF resp.kind = "http_error"
           THEN \* task['id'] on a key of the error object, a str
                /\ calls' = Append(calls, request)
                /\ Fail("TypeError")
                /\ UNCHANGED <<project_idx, col_projects>>
           ELSE /\ col_projects' = DictPut(col_projects, project.id,
                                           <<project.name, TasksDict(resp.body, <<>>)>>)
                /\ calls' = calls \o <<request, Sleep(EffectiveDelay(args.delay))>>
                /\ project_idx' = project_idx + 1
                /\ UNCHANGED <<col_pc, col_error>>
    /\ UNCHANGED <<args, identity, project_list, num_pages, page, entries, col_files>>
    /\ UNCHANGED <<dur_vars, date_vars, pp_vars>>

GetProjectTasks ==
    /\ col_pc = "tasks"
    /\ project_idx <= Len(project_list)
    /\ \E resp \in TaskResponses(project_list[project_idx].id) : GetProjectTasksGiven(resp)

\* get_projects returns; main, lines 89-92, settles num_pages and calls
\* get_time_entries
StartTimeEntries ==
    /\ col_pc = "tasks"
    /\ project_idx > Len(project_list)
    /\ num_pages' = ChooseNumPages(args)
    /\ page' = 1
    /\ col_pc' = "pages"
    /\ UNCHANGED <<args, col_error, calls, identity, project_list, project_idx,
                   col_projects, entries, col_files>>
    /\ UNCHANGED <<dur_vars, date_vars, pp_vars>>

\* range(1, num_pages): the last page is left out.
PageInRangeExclusive(pg, n) == pg < n

\* "for page in range(1, num_pages + 1)" has a next page
PageInRange(pg, n) == pg <= n

\* the loop body of get_time_entries for page, given the response
GetPageGiven(resp) ==
    /\ col_pc = "pages"
    /\ PageInRange(page, num_pages)
    /\ LET request == Get("time-entries", "", page, resp)
       IN  IF FetchRaises(resp.kind) # "none"
           THEN /\ calls' = Append(calls, request)
                /\ Fail(FetchRaises(resp.kind))
                /\ UNCHANGED <<entries, page>>
           ELSE /\ entries' = AppendAll(entries, resp)
                /\ calls' = calls \o <<request, Sleep(EffectiveDelay(args.delay))>>
                /\ page' = page + 1
                /\ UNCHANGED <<col_pc, col_error>>
    /\ UNCHANGED <<args, identity, project_list, project_idx, col_projects, num_pages,
                   col_files>>
    /\ UNCHANGED <<dur_vars, date_vars, pp_vars>>

GetPage == \E resp \in PageResponses(page) : GetPageGiven(resp)

Dumped(name, content) == [file |-> name, content |-> content]

\* get_time_entries returns; dump_data(projects, proj_file)
DumpProjects ==
    /\ col_pc = "pages"
    /\ ~PageInRange(page, num_pages)
    /\ col_files' = Append(col_files, Dumped("projects.json", col_projects))
    /\ col_pc' = "dump_tasks"
    /\ UNCHANGED <<args, col_error, calls, identity, project_list, project_idx,
                   col_projects, num_pages, page, entries>>
    /\ UNCHANGED <<dur_vars, date_vars, pp_vars>>

\* main, lines 101-105
DumpTasks ==
    /\ col_pc = "dump_tasks"
    /\ col_files' = Append(col_files, Dumped("tasks.json", FlattenTasks(col_projects, <<>>)))
    /\ col_pc' = "dump_entries"
    /\ UNCHANGED <<args, col_error, calls, identity, project_list, project_idx,
                   col_projects, num_pages, page, entries>>
    /\ UNCHANGED <<dur_vars, date_vars, pp_vars>>

\* dump_data(time_entries, entries_file)
DumpEntries ==
    /\ col_pc = "dump_entries"
    /\ col_files' = Append(col_files, Dumped("entries.json", entries))
    /\ col_pc' = "done"
    /\ UNCHANGED <<args, col_error, calls, identity, project_list, project_idx,
                   col_projects, num_pages, page, entries>>
    /\ UNCHANGED <<dur_vars, date_vars, pp_vars>>

ColInit ==
    /\ args \in CommandLines
    /\ col_pc = "user"
    /\ col_error = "none"
    /\ calls = <<>>
    /\ identity = <<>>
    /\ project_list = <<>>
    /\ project_idx = 0
    /\ col_projects = <<>>
    /\ num_pages = 0
    /\ page = 0
    /\ entries = <<>>
    /\ col_files = <<>>
    /\ DurIdle
    /\ DateIdle
    /\ PpIdle

\* most entries asked for with --num-entries when main's page count is
\* derived on its own
MaxNumEntries == 260

PagesInit ==
    /\ args \in {[num_pages |-> <<>>, num_entries |-> <<n>>, delay |-> <<>>] :
                    n \in (0 - 1)..MaxNumEntries}
    /\ col_pc = "derive"
    /\ col_error = "none"
    /\ calls = <<>>
    /\ identity = <<>>
    /\ project_list = <<>>
    /\ project_idx = 0
    /\ col_projects = <<>>
    /\ num_pages = 0
    /\ page = 0
    /\ entries = <<>>
    /\ col_files = <<>>
    /\ DurIdle
    /\ DateIdle
    /\ PpIdle

\* main, lines 89-92, on its own
DerivePageCount ==
    /\ col_pc = "derive"
    /\ num_pages' = ChooseNumPages(args)
    /\ col_pc' = "derived"
    /\ UNCHANGED <<args, col_error, calls, identity, project_list, project_idx,
                   col_projects, page, entries, col_files>>
    /\ UNCHANGED <<dur_vars, date_vars, pp_vars>>

ColNext ==
    \/ GetUserInfo
    \/ ListProjects
    \/ GetProjectTasks
    \/ StartTimeEntries
    \/ GetPage
    \/ DumpProjects
    \/ DumpTasks
    \/ DumpEntries

\* the Collector's run
SpecCollector == ColInit /\ [][ColNext]_vars

\* the Collector's run, and main's page count on its own
SpecPages == (ColInit \/ PagesInit) /\ [][ColNext \/ DerivePageCount]_vars

\* calculate_duration on its own
SpecDuration == DurInit /\ [][CallCalculateDuration]_vars

\* the Normalizer's run, and get_date on its own
SpecDates == (Init \/ DateInit) /\ [][Next \/ CallGetDate]_vars

----------------------------------------------------------------------------
(* Claims about calculate_duration, under SpecDuration *)

SecondsOf(v) == IF v = ABSENT THEN 0 ELSE v

\* C1: for a valid duration string (PT, then a non-empty subset of the units
\* H, M, S in that order, each after a nonnegative integer), calculate_duration
\* returns exactly 3600*h + 60*m + s, an omitted unit counting as 0.
C1_ValidDurationDecodes ==
    (dur_pc = "done" /\ dur_parts # NoParts) =>
        dur_result = Returned(3600 * SecondsOf(dur_parts.h) + 60 * SecondsOf(dur_parts.m)
                              + SecondsOf(dur_parts.s))

\* hours omitted, a multi-digit minute, a zero second, leading zeros: PT010M00S
C1_Witness ==
    /\ dur_pc = "done"
    /\ dur_parts = [h |-> ABSENT, m |-> 10, s |-> 0, pad |-> 1]
    /\ duration = <<"P", "T", "0", "1", "0", "M", "0", "0", "S">>
    /\ dur_result = Returned(600)

NoUnitLetterAfterPrefix(s) == \A k \in 3..Len(s) : s[k] \notin {"H", "M", "S"}

\* C2: for every input whose text after the 2-character prefix contains none
\* of the letters H, M, S, calculate_duration raises ValueError and returns no
\* number.
C2_NoUnitRaises ==
    (dur_pc = "done" /\ NoUnitLetterAfterPrefix(duration)) =>
        dur_result = Raised("ValueError")

\* "PT15": digits only after the prefix
C2_Witness ==
    /\ dur_pc = "done"
    /\ duration = <<"P", "T", "1", "5">>
    /\ dur_result.kind = "ValueError"

----------------------------------------------------------------------------
(* Claims about the Normalizer's run, under Spec *)

RunReturned == pp_pc \in {"csv", "json", "done"}

\* C3: in every normalized record task_id is None exactly when task_name is
\* None; an entry whose taskId is None yields both None, and the tasks table
\* is not read for it (so no KeyError can come from it), whatever the table
\* holds.
C3_TaskIdNullIffTaskNameNull ==
    /\ \A k \in 1..Len(processed_items) :
          /\ processed_items[k].task_id = None <=> processed_items[k].task_name = None
          /\ data[k].taskId = None =>
                (processed_items[k].task_id = None /\ processed_items[k].task_name = None)
    /\ (pp_pc = "failed" /\ pp_error = "KeyError" /\ data[datum_idx].taskId = None) =>
          ~HasKey(projects, data[datum_idx].projectId)

\* a project-only record and a record with a task, in one run
C3_Witness ==
    /\ Len(processed_items) = 2
    /\ data[1].taskId = None /\ processed_items[1].task_name = None
    /\ data[2].taskId = "T1" /\ processed_items[2].task_name = "Task One"

ExpectedDescription(d) ==
    IF d = <<"W", "o", "r", "k", "e", "d", " ", "O", "N", " ", "i", "t">>
    THEN <<"w", "o", "r", "k", "e", "d", " ", "o", "n", " ", "i", "t">>
    ELSE d

IsNormalizationOf(item, datum) ==
    /\ item.project_id = datum.projectId
    /\ item.project_name = projects[datum.projectId][1]
    /\ item.description = ExpectedDescription(datum.description)
    /\ item.duration_seconds = calculate_duration(datum.timeInterval.duration).val
    /\ item.start_time_utc = datum.timeInterval.start
    /\ item.end_time_utc = datum.timeInterval.end

\* C4: when preprocess_data returns, the output list has exactly as many
\* records as the input and the i-th record is the normalization of the i-th
\* entry; while it runs, the records built so far are those of the entries
\* read so far, in order.
C4_OutputFollowsInput ==
    /\ pp_pc \in {"loop", "failed"} \cup {"csv", "json", "done"} =>
          /\ Len(processed_items) = datum_idx - 1
          /\ \A k \in 1..Len(processed_items) :
                IsNormalizationOf(processed_items[k], data[k])
    /\ RunReturned => Len(processed_items) = Len(data)

\* two different entries normalized, in input order
C4_Witness ==
    /\ pp_pc = "done"
    /\ Len(data) = 2 /\ Len(json_file) = 2
    /\ data[1].description # data[2].description
    /\ json_file[1].description = <<"w", "o", "r", "k", "e", "d", " ", "o", "n", " ", "i", "t">>
    /\ json_file[1].project_name = "Proj One"
    /\ json_file[1].duration_seconds = 3630

BadReference(datum) ==
    \/ ~HasKey(projects, datum.projectId)
    \/ datum.taskId # None /\ ~HasKey(tasks, datum.taskId)

HasBadReference == \E k \in 1..Len(data) : BadReference(data[k])

FirstBadReference == CHOOSE k \in 1..Len(data) :
    BadReference(data[k]) /\ \A j \in 1..(k - 1) : ~BadReference(data[j])

\* C5 as stated: if any raw entry references an absent project or task, the
\* run fails with a lookup error (KeyError) and writes no output.
C5_BadReferenceFailsWithLookupError ==
    (pp_pc # "idle" /\ HasBadReference) =>
        /\ files_written = {}
        /\ pp_pc \in {"loop", "failed"}
        /\ pp_pc = "failed" => pp_error = "KeyError"

\* C5 amended: such a run fails and writes no output; the error is the
\* KeyError of the first entry with a bad reference, unless an earlier entry
\* has a malformed timestamp or duration, whose error then ends the run.
C5_BadReferenceFailsWithoutOutput ==
    (pp_pc # "idle" /\ HasBadReference) =>
        /\ files_written = {} /\ csv_file = <<>> /\ json_file = <<>>
        /\ pp_pc \in {"loop", "failed"}
        /\ datum_idx <= FirstBadReference
        /\ pp_pc = "failed" =>
              IF datum_idx = FirstBadReference THEN pp_error = "KeyError"
              ELSE pp_error \in {"ValueError", "IndexError"}

\* the second entry names an unknown project, after one record was built
C5_Witness ==
    /\ pp_pc = "failed" /\ pp_error = "KeyError"
    /\ datum_idx = 2 /\ Len(processed_items) = 1
    /\ data[2].projectId = "P9"
    /\ files_written = {}

\* the record's fields in the order of the data model
RecordFieldList ==
    <<"task_id", "task_name", "project_id", "project_name", "description",
      "start_time_utc", "start_date_utc", "end_time_utc", "end_date_utc",
      "duration_seconds">>

\* the fields in the order export_to_csv is found to write them
CsvFieldOrder ==
    <<"project_name", "project_id", "task_name", "task_id", "description",
      "start_time_utc", "start_date_utc", "end_time_utc", "end_date_utc",
      "duration_seconds">>

\* the human-readable header of each field
ColumnHeader ==
    [task_id |-> "Task ID", task_name |-> "Task Name", project_id |-> "Project ID",
     project_name |-> "Project Name", description |-> "Description",
     start_time_utc |-> "Start Time (UTC)", start_date_utc |-> "Start Date (UTC)",
     end_time_utc |-> "End Time (UTC)", end_date_utc |-> "End Date (UTC)",
     duration_seconds |-> "Duration (Seconds)"]

ColumnsFollow(order) ==
    /\ Len(csv_file) = 1 + Len(processed_items)
    /\ \A c \in 1..10 :
          /\ Len(csv_file[1]) = 10
          /\ csv_file[1][c] = ColumnHeader[order[c]]
          /\ \A k \in 1..Len(processed_items) :
                /\ Len(csv_file[k + 1]) = 10
                /\ csv_file[k + 1][c] = processed_items[k][order[c]]

\* C9 as stated: the CSV columns, header and data rows, are in the order of
\* the record's field list: task_id, task_name, project_id, project_name, ...
C9_ColumnsInRecordFieldOrder ==
    "csv" \in files_written => ColumnsFollow(RecordFieldList)

\* C9 amended: the CSV columns, header and data rows alike, are in the fixed
\* order project_name, project_id, task_name, task_id, description,
\* start_time_utc, start_date_utc, end_time_utc, end_date_utc,
\* duration_seconds.
C9_ColumnsInCsvOrder ==
    "csv" \in files_written => ColumnsFollow(CsvFieldOrder)

\* a header and two data rows, one of them with a task
C9_Witness ==
    /\ "csv" \in files_written
    /\ Len(csv_file) = 3
    /\ csv_file[2][4] = "T1" /\ csv_file[2][3] = "Task One"
    /\ csv_file[3][4] = None

----------------------------------------------------------------------------
(* Claims about get_date, under SpecDates *)

HasT(ts) == \E k \in 1..Len(ts) : ts[k] = "T"

\* d is what precedes the first 'T' of ts
IsDateOf(d, ts) ==
    /\ ~HasT(d)
    /\ Len(d) < Len(ts)
    /\ d \o <<"T">> = SubSeq(ts, 1, Len(d) + 1)

LookupsSucceed(datum) ==
    /\ HasKey(projects, datum.projectId)
    /\ datum.taskId = None \/ HasKey(tasks, datum.taskId)

\* C10: get_date returns the substring strictly before the first 'T' of a
\* timestamp that contains one and raises ValueError for one that contains
\* none; in preprocess_data that error, on start or on end, ends the run: no
\* record is built for the entry and nothing is written.
C10_DateIsPrefixBeforeT ==
    /\ date_result.kind \in {"ok", "ValueError"} =>
          IF HasT(isoformattime)
          THEN date_result.kind = "ok" /\ IsDateOf(date_result.val, isoformattime)
          ELSE date_result = RaisedStr("ValueError")
    /\ \A k \in 1..Len(processed_items) :
          /\ IsDateOf(processed_items[k].start_date_utc, data[k].timeInterval.start)
          /\ IsDateOf(processed_items[k].end_date_utc, data[k].timeInterval.end)
    /\ \A k \in 1..Len(data) :
          (~HasT(data[k].timeInterval.start) \/ ~HasT(data[k].timeInterval.end)) =>
              /\ Len(processed_items) < k
              /\ files_written = {}
              /\ pp_pc \in {"idle", "loop", "failed"}
              /\ (pp_pc = "failed" /\ datum_idx = k /\ LookupsSucceed(data[k])) =>
                    pp_error = "ValueError"

\* "2023-05-01T10:00:00Z" gives "2023-05-01"
C10_Witness ==
    /\ Len(processed_items) >= 1
    /\ processed_items[1].start_time_utc = GoodStart
    /\ processed_items[1].start_date_utc =
           <<"2", "0", "2", "3", "-", "0", "5", "-", "0", "1">>

----------------------------------------------------------------------------
(* Claims about the Collector's run, under SpecCollector *)

IsRequest(c) == c.op = "get"

\* C6 as stated: a request that fails (network error, non-success status,
\* body that is not JSON) is fatal: the run aborts at that request, no
\* request follows it, no artifact is written, and nothing of a failed
\* response becomes an element of the entries.
C6_RequestFailureIsFatal ==
    \A k \in 1..Len(calls) :
        (IsRequest(calls[k]) /\ calls[k].resp \in FailedResponses) =>
            /\ col_pc = "failed"
            /\ \A j \in (k + 1)..Len(calls) : ~IsRequest(calls[j])
            /\ col_files = <<>>
            /\ \A e \in 1..Len(entries) : entries[e].str = ""

PageCalls == SelectSeq(calls, LAMBDA c : c.op = "get" /\ c.what = "time-entries")

RECURSIVE ConcatBodies(_)
ConcatBodies(cs) == IF cs = <<>> THEN <<>> ELSE Head(cs).body \o ConcatBodies(Tail(cs))

InTimeEntries == col_pc \in {"pages", "dump_tasks", "dump_entries", "done"}

TimeEntriesReturned == col_pc \in {"dump_tasks", "dump_entries", "done"}

GivenDelay == IF args.delay = <<>> THEN 200 ELSE args.delay[1]

\* C7: get_time_entries with num_pages = n issues exactly n requests, for pages
\* 1, 2, ..., n in that order (none when n <= 0), each followed by a sleep of
\* delay (0.2 s when none is given) before the next, and returns the pages'
\* records concatenated in page order then in-page order; an empty or short
\* page does not stop the loop.
C7_PagesRequestedInOrder ==
    InTimeEntries =>
        /\ Len(PageCalls) = page - 1
        /\ \A k \in 1..Len(PageCalls) : PageCalls[k].page = k
        /\ \A k \in 1..Len(calls) :
              (IsRequest(calls[k]) /\ calls[k].what = "time-entries") =>
                  /\ k + 1 <= Len(calls)
                  /\ calls[k + 1] = Sleep(GivenDelay)
        /\ (\A k \in 1..Len(PageCalls) : PageCalls[k].resp = "ok") =>
              entries = ConcatBodies(PageCalls)
        /\ TimeEntriesReturned =>
              /\ Len(PageCalls) = (IF num_pages > 0 THEN num_pages ELSE 0)
              /\ num_pages <= 0 => entries = <<>>

\* two pages asked for with the default delay: the first comes back empty,
\* the second with two entries
C7_Witness ==
    /\ col_pc = "done"
    /\ args.num_pages = <<2>> /\ args.delay = <<>>
    /\ Len(PageCalls) = 2
    /\ PageCalls[1].body = <<>>
    /\ entries = <<EntryOf(2, 1), EntryOf(2, 2)>>
    /\ calls[Len(calls)] = Sleep(200)

----------------------------------------------------------------------------
(* Claims about the page count, under SpecPages *)

PageCountSettled ==
    col_pc \in {"derived", "pages", "dump_tasks", "dump_entries", "done"}

\* C8: given a minimum entry count n >= 1 instead of a page count, the page
\* count used is the least p with 50 * p >= n (125 gives 3, 100 gives 2); it
\* is settled before any page is requested and no response changes it: as
\* many pages are requested as it says, short and empty pages included.
C8_PageCountIsCeiling ==
    (PageCountSettled /\ args.num_pages = <<>> /\ args.num_entries[1] >= 1) =>
        /\ 50 * num_pages >= args.num_entries[1]
        /\ 50 * (num_pages - 1) < args.num_entries[1]
        /\ args.num_entries[1] = 125 => num_pages = 3
        /\ args.num_entries[1] = 100 => num_pages = 2
        /\ col_pc = "done" => Len(PageCalls) = num_pages

\* 125 entries asked for: 3 pages
C8_Witness ==
    /\ col_pc = "derived"
    /\ args.num_entries = <<125>>
    /\ num_pages = 3

----------------------------------------------------------------------------
(* Claims about get_projects, under SpecCollector *)

ProjectListCalls == SelectSeq(calls, LAMBDA c : c.op = "get" /\ c.what = "projects")

TaskCalls == SelectSeq(calls, LAMBDA c : c.op = "get" /\ c.what = "tasks")

InGetProjects == col_pc \in {"tasks", "pages", "dump_tasks", "dump_entries", "done"}

GetProjectsReturned == col_pc \in {"pages", "dump_tasks", "dump_entries", "done"}

\* the task map of a task response: task id -> task name, in response order
TaskMapOf(body) == [j \in 1..Len(body) |-> <<body[j].id, body[j].name>>]

\* C11: get_projects issues one project-list request and then exactly one
\* task request per listed project, in the order of the response, one after
\* the other; each task request is followed by a sleep of delay (0.2 s when
\* none is given) before the next; the dict returned holds, for every listed
\* project id, the pair [name, task map returned for that project].
C11_OneTaskRequestPerProject ==
    InGetProjects =>
        /\ Len(ProjectListCalls) = 1
        /\ calls[2].what = "projects"
        /\ \A k \in 1..2 : calls[k].what # "tasks"
        /\ Len(TaskCalls) = project_idx - 1
        /\ \A k \in 1..Len(TaskCalls) : TaskCalls[k].project = project_list[k].id
        /\ \A k \in 1..Len(calls) :
              (IsRequest(calls[k]) /\ calls[k].what = "tasks") =>
                  /\ k + 1 <= Len(calls)
                  /\ calls[k + 1] = Sleep(GivenDelay)
        /\ col_projects =
              [k \in 1..Len(TaskCalls) |->
                  <<project_list[k].id,
                    <<project_list[k].name, TaskMapOf(TaskCalls[k].body)>>>>]
        /\ GetProjectsReturned => Len(TaskCalls) = Len(project_list)

\* the API lists P2 then P1; P2 has a task, P1 has none; no delay given
C11_Witness ==
    /\ GetProjectsReturned
    /\ args.delay = <<>>
    /\ Len(TaskCalls) = 2
    /\ TaskCalls[1].project = "P2" /\ TaskCalls[2].project = "P1"
    /\ calls[4] = Sleep(200)
    /\ col_projects = << <<"P2", <<"Proj Two", << <<"T2", "Task Two">> >> >> >>,
                         <<"P1", <<"Proj One", <<>> >> >> >>

----------------------------------------------------------------------------
(* Claims about malformed duration strings, under SpecDuration *)

HasLetter(ps, l) == \E k \in 1..Len(ps) : ps[k][2] = l

\* the total of pairing the i-th letter present, in H, M, S order, with the
\* i-th number written
PositionalTotal(ps) ==
    LET h_at == 1
        m_at == IF HasLetter(ps, "H") THEN 2 ELSE 1
        s_at == 1 + (IF HasLetter(ps, "H") THEN 1 ELSE 0)
                  + (IF HasLetter(ps, "M") THEN 1 ELSE 0)
    IN  (IF HasLetter(ps, "H") THEN 3600 * ps[h_at][1] ELSE 0)
        + (IF HasLetter(ps, "M") THEN 60 * ps[m_at][1] ELSE 0)
        + (IF HasLetter(ps, "S") THEN ps[s_at][1] ELSE 0)

StartsWithPT == Len(duration) >= 2 /\ duration[1] = "P" /\ duration[2] = "T"

AfterPrefix == SubSeq(duration, 3, Len(duration))

IsLetterAt(k) == AfterPrefix[k] \in {"H", "M", "S"}

\* a number starts at k: a character that is no unit letter, at the start or
\* right after a unit letter
NumberStartsAt(k) == ~IsLetterAt(k) /\ (k = 1 \/ IsLetterAt(k - 1))

\* all that stands between the unit letters is integers: digits, with a sign
\* only in front
NumbersAreIntegers ==
    \A k \in 1..Len(AfterPrefix) :
        ~IsLetterAt(k) =>
            \/ AfterPrefix[k] \in {"0", "1", "2", "3", "4", "5", "6", "7", "8", "9"}
            \/ /\ AfterPrefix[k] \in {"-", "+"}
               /\ NumberStartsAt(k)
               /\ k < Len(AfterPrefix)
               /\ AfterPrefix[k + 1] \in {"0", "1", "2", "3", "4", "5", "6", "7", "8", "9"}

NumberCount == Cardinality({k \in 1..Len(AfterPrefix) : NumberStartsAt(k)})

LettersPresent == {AfterPrefix[k] : k \in {j \in 1..Len(AfterPrefix) : IsLetterAt(j)}}

UnitRank(l) == IF l = "H" THEN 1 ELSE IF l = "M" THEN 2 ELSE 3

HasDuplicateLetter ==
    \E i, j \in 1..Len(AfterPrefix) :
        i < j /\ IsLetterAt(i) /\ AfterPrefix[i] = AfterPrefix[j]

HasOutOfOrderLetters ==
    \E i, j \in 1..Len(AfterPrefix) :
        i < j /\ IsLetterAt(i) /\ IsLetterAt(j)
              /\ UnitRank(AfterPrefix[i]) > UnitRank(AfterPrefix[j])

HasNegativeNumber == \E k \in 1..Len(AfterPrefix) : AfterPrefix[k] = "-"

====
